---- MODULE Spec2Model ----
(***************************************************************************)
(* The channel timer of timer_bot.py: the Timer object (countdown          *)
(* coroutine, pause / resume / stop / refresh), the Timer.MAP registry and *)
(* the command handlers, run on one asyncio event loop.  bot.py is the     *)
(* other bot of the repository: its TimerManager display callback is       *)
(* modelled next to it, and an execution is an execution of one of the     *)
(* two bots.                                                               *)
(*                                                                         *)
(* Time is counted in hundredths of a second, so that 0.5 s, 1.01 s and    *)
(* 2 s of the source are the integers 50, 101 and 200.  The program only   *)
(* ever uses differences of clock readings, so every reading (a            *)
(* time_reference, the moment a sleep is over) is kept relative to the     *)
(* current instant: the clock reads 0 and a tick shifts the readings.      *)
(* One channel is modelled; the Timer objects constructed for it are       *)
(* numbered 1, 2, ...                                                      *)
(*                                                                         *)
(* A coroutine runs without interruption from one await to the next, so    *)
(* every action below is the code between two awaits.  The reply sent to   *)
(* the interaction (create_initial_response) is the last statement of a    *)
(* handler and changes no state of the program: it is part of the          *)
(* handler's last action, except for stop, whose return is observed.       *)
(* Statements that only log or format text are left out, and with them the *)
(* attributes only they read (log_prefix); self.channel at line            *)
(* 396 is read as self.channel_id, the key that line 410 deletes, and the  *)
(* keyword miutes of line 505 as minutes.                                  *)
(***************************************************************************)
EXTENDS Integers, Sequences, FiniteSets, TLC

\* ------------------------------------------------------------ bounds
MaxTimers == 2
\* commands, clock lags, failed calls and aged messages in one execution
MaxEvents == 3
\* the same, in the executions of pause, resume and display alone
MaxPauseEvents == 4
\* the same, in the executions of one Timer that may be secured
MaxSecuredEvents == 3
\* TimerManager.__call__ coroutines under way at once
MaxCalls == 2
\* calls of the display callback, failed calls and aged messages in one execution
MaxManagerEvents == 4
\* the commands of an execution of SpecComplete
MaxCompleteEvents == 3
\* the commands of an execution of SpecShutdown
MaxShutdownEvents == 3
\* the commands of an execution of SpecStart
MaxStartEvents == 1
\* the times, in seconds, _next_threshold is applied to
MaxThresholdTime == 7300
\* calls of the display callback and failed calls in an execution of SpecThreshold
MaxThresholdEvents == 3
\* the commands of an execution of SpecStop
MaxStopEvents == 3
\* the start command and the slow calls of an execution of SpecCadence
MaxCadenceEvents == 5

\* ------------------------------------------------- program constants
Sec(n) == n * 100
THRESHOLDS == <<0, Sec(60), Sec(300), Sec(900), Sec(1800)>>
DISPLAY_SECONDS == 30000
PAUSE_TIMEOUT == 180000
HOUR == 360000

Engines == 1..MaxTimers
Users == {"A", "B"}
\* the "hours" and "minutes" options of /timer start
StartOptions == {<<0, 2>>}
\* the "minutes" option of /timer add and /timer sub
MinuteOptions == {1}
\* how far the clock moves while no sleep is due
LagStep == Sec(1)

None == [st |-> "none", due |-> 0]
NoPause == [st |-> "none", at |-> 0, ran |-> 0, since |-> 0]
\* the StoppingEvent has not been dispatched
NoStopping == [st |-> "no", timers |-> {}]
NoMessage == [id |-> 0, old |-> FALSE]
Idle == [pc |-> "none", pos |-> "none", tgt |-> NoMessage]

Min(a, b) == IF a < b THEN a ELSE b
Max(a, b) == IF a > b THEN a ELSE b
Last(s) == s[Len(s)]
Front(s) == SubSeq(s, 1, Len(s) - 1)
Range(s) == {s[i] : i \in 1..Len(s)}
SeqFilterOut(s, x) == SelectSeq(s, LAMBDA y : y # x)
RECURSIVE SeqFilter(_, _)
SeqFilter(s, t) ==
    IF s = <<>> THEN <<>>
    ELSE (IF t > Head(s) THEN <<Head(s)>> ELSE <<>>) \o SeqFilter(Tail(s), t)

\* asyncio.get_event_loop().time(), the origin of the clock readings
now == 0

VARIABLES
    MAP,               \* Timer.MAP[channel_id]: 0 (no entry) or a Timer
    nTimers,           \* Timer objects constructed so far
    author_id, secured,
    time_left, time_reference, thresholds, message,
    countdown_future, resume_future,
    cd,                \* the task running Timer.run of each Timer
    handlers,          \* the command handlers suspended at an await
    posted,            \* the timer messages that exist in the channel
    budget,            \* commands, clock lags, failed calls and aged messages to come
    \* observations, read by no action
    notified,          \* the thresholds each Timer has notified, in order
    owed,              \* the thresholds the last test of line 520 that notified
                       \* one found reached as well, and left pending
    stopped,           \* how far a stop of each Timer has come
    refused,           \* the commands answered "Unauthorized" so far
    stopping,          \* the StoppingEvent listener: whether it has run, and the
                       \* Timers that were in MAP when it did
    shown,             \* the time_left of the display each Timer started last
    displayed,         \* the Timer has started a display since the last command
                       \* that changed it
    pausing,           \* the last pause() of each Timer: what it found (st), the
                       \* time_left it found (at), the time run since the last
                       \* display (ran) and the time gone by since (since)
    \* bot.py
    manager,           \* the TimerManager: threshold, message, lock
    calls,             \* the TimerManager.__call__ coroutines
    calls_left,        \* calls, failed calls and aged messages to come
    sent               \* observation: the notifications of the TimerManager

timerVars == <<author_id, secured, time_left, time_reference, thresholds,
               message, countdown_future, resume_future>>
envVars == <<posted>>
budgetVars == <<budget>>
obsVars == <<notified, owed, refused, shown, displayed, stopped, pausing>>
mgrVars == <<manager, calls, calls_left, sent>>
shutVars == <<stopping>>
vars == <<MAP, nTimers, timerVars, cd, handlers, envVars, budgetVars, obsVars, mgrVars,
          shutVars>>

\* ------------------------------------------------------- Timer.__init__
InitialThresholds(time) ==
    SeqFilter(THRESHOLDS, time)
        \o [i \in 1..(time \div HOUR) |-> i * HOUR]

\* ------------------------------------------- asyncio futures and sleeps
Sleep(delay) == [st |-> "pending", due |-> now + Max(0, delay)]
Cancel(f) == IF f.st = "pending" /\ f.due > now THEN [st |-> "cancelled", due |-> 0] ELSE f
\* the awaiting coroutine can run: the sleep is over or was cancelled
Woken(f) == f.st = "cancelled" \/ (f.st = "pending" /\ f.due <= now)

\* ---------------------------------------------------------- coroutines
\* A coroutine inside _send_or_update_message: the task of Timer.run
\* ([k |-> "cd", e |-> the Timer]) or a command handler ([k |-> "h", h |-> it]).
InSend ==
    {[k |-> "cd", e |-> e] : e \in {x \in Engines : cd[x].pc \in {"loop", "final"}}}
        \cup {[k |-> "h", h |-> h] : h \in {x \in handlers : x.pc \in {"start", "refresh"}}}
TEng(t) == IF t.k = "cd" THEN t.e ELSE t.h.eng
TPos(t) == IF t.k = "cd" THEN cd[t.e].pos ELSE t.h.pos
TTgt(t) == IF t.k = "cd" THEN cd[t.e].tgt ELSE t.h.tgt

\* Discord gives a new message an id no message in the channel or in any
\* coroutine's hands has
UsedIds ==
    posted \cup {message[e].id : e \in Engines} \cup {cd[e].tgt.id : e \in Engines}
        \cup {h.tgt.id : h \in handlers}
FreshId == CHOOSE i \in 1..(Cardinality(UsedIds) + 1) : i \notin UsedIds

\* ------------------------------------- Timer._send_or_update_message
\* What a coroutine inside _send_or_update_message has done when it next
\* suspends (pos: the call it awaits), returns ("ret") or raises ("raise").
Out(pos, tgt, msg, thr, post, fl, fired) ==
    [pos |-> pos, tgt |-> tgt, message |-> msg, thresholds |-> thr,
     posted |-> post, budget |-> fl, fired |-> fired]

\* ThresholdStep with thresholds[-1] in place of thresholds.pop() at line 523
ThresholdStepNoPop(e, msg, post, fl) ==
    LET thr == thresholds[e] IN
    IF thr # <<>> /\ Last(thr) >= time_left[e] /\ time_left[e] >= 0
    THEN Out("notify", NoMessage, msg, thr, post, fl, Last(thr))
    ELSE Out("ret", NoMessage, msg, thr, post, fl, -1)

\* lines 520-525: one notification if the highest pending threshold is reached
ThresholdStep(e, msg, post, fl) ==
    LET thr == thresholds[e] IN
    IF thr # <<>> /\ Last(thr) >= time_left[e] /\ time_left[e] >= 0
    THEN Out("notify", NoMessage, msg, Front(thr), post, fl, Last(thr))
    ELSE Out("ret", NoMessage, msg, thr, post, fl, -1)

\* lines 516-519: "if not self.message" a new message is created
CreateStep(e, msg, post, fl) ==
    IF msg.id = 0
    THEN Out("create", NoMessage, msg, thresholds[e], post, fl, -1)
    ELSE ThresholdStep(e, msg, post, fl)

\* lines 412-421 called from lines 507 and 514
DeleteStep(e, post, fl) ==
    IF message[e].id = 0
    THEN CreateStep(e, NoMessage, post, fl)
    ELSE Out("del", message[e], NoMessage, thresholds[e], post, fl, -1)

\* lines 500-512: from the call to the first await
SendEnter(e, post) ==
    IF message[e].id # 0
    THEN IF message[e].old
         THEN DeleteStep(e, post, budget)
         ELSE Out("edit", message[e], message[e], thresholds[e],
                  post, budget, -1)
    ELSE CreateStep(e, NoMessage, post, budget)

\* line 510: the edit succeeded
EditDone(e, tgt) == ThresholdStep(e, tgt, posted, budget)
\* EditFailed with the HikariError of line 510 not caught
EditFailedFatal(e, tgt) ==
    Out("raise", NoMessage, message[e], thresholds[e], posted,
        IF tgt.id \in posted THEN budget - 1 ELSE budget, -1)

\* lines 513-514: the edit raised a HikariError
EditFailed(e, tgt) ==
    DeleteStep(e, posted, IF tgt.id \in posted THEN budget - 1 ELSE budget)
\* line 419 returned (or raised a HikariError, which is swallowed)
DeleteDone(e, tgt) == CreateStep(e, message[e], posted \ {tgt.id}, budget)
\* line 517: the message is created
CreateDone(e) ==
    ThresholdStep(e, [id |-> FreshId, old |-> FALSE], posted \cup {FreshId}, budget)
\* line 517 raised
CreateFailed(e) ==
    Out("raise", NoMessage, message[e], thresholds[e], posted, budget - 1, -1)
\* line 521 returned
NotifyDone(e) ==
    Out("ret", NoMessage, message[e], thresholds[e], posted, budget, -1)

\* lines 368-382: the sleep between two displays
Interval(tl) ==
    IF tl < Sec(2) THEN tl
    ELSE IF tl < DISPLAY_SECONDS + Sec(30) THEN 101
    ELSE Sec(30)

\* lines 355-389: after the display, wait for the resume or for the interval
AfterDisplay(e) ==
    IF resume_future[e] # None
    THEN /\ cd' = [cd EXCEPT ![e] = [pc |-> "wait_resume", pos |-> "none", tgt |-> NoMessage]]
         /\ UNCHANGED countdown_future
    ELSE /\ cd' = [cd EXCEPT ![e] = [pc |-> "wait_countdown", pos |-> "none", tgt |-> NoMessage]]
         /\ countdown_future' = [countdown_future EXCEPT ![e] = Sleep(Interval(time_left[e]))]

\* lines 409-410: "del self.MAP[self.channel_id]" removes the channel's entry,
\* whichever Timer it holds (with no entry it raises KeyError: the task ends)
RunFinally(e) ==
    /\ MAP' = 0
    /\ cd' = [cd EXCEPT ![e] = [pc |-> "done", pos |-> "none", tgt |-> NoMessage]]
    /\ UNCHANGED countdown_future

\* _send_or_update_message returned to its caller
Return(t) ==
    IF t.k = "cd"
    THEN /\ IF cd[t.e].pc = "loop" THEN AfterDisplay(t.e) /\ UNCHANGED MAP
            ELSE RunFinally(t.e)
         /\ UNCHANGED handlers
    ELSE \* line 220: asyncio.create_task(timer.run()); a refresh just returns
         /\ handlers' = handlers \ {t.h}
         /\ cd' = IF t.h.pc = "start"
                  THEN [cd EXCEPT ![t.h.eng] = [pc |-> "sched", pos |-> "none", tgt |-> NoMessage]]
                  ELSE cd
         /\ UNCHANGED <<MAP, countdown_future>>

\* Raise with the task of line 220 created although the display raised
RaiseStarts(t) ==
    IF t.k = "cd"
    THEN RunFinally(t.e) /\ UNCHANGED handlers
    ELSE /\ handlers' = handlers \ {t.h}
         /\ cd' = IF t.h.pc = "start"
                  THEN [cd EXCEPT ![t.h.eng] = [pc |-> "sched", pos |-> "none", tgt |-> NoMessage]]
                  ELSE cd
         /\ UNCHANGED <<MAP, countdown_future>>

\* _send_or_update_message raised: lines 406-410 in Timer.run, lines 221-229
\* in the start handler; any other handler ends with the exception
Raise(t) ==
    IF t.k = "cd"
    THEN RunFinally(t.e) /\ UNCHANGED handlers
    ELSE handlers' = handlers \ {t.h} /\ UNCHANGED <<cd, MAP, countdown_future>>

\* the coroutine awaits the next call
Suspend(t, pos, tgt) ==
    /\ IF t.k = "cd"
       THEN /\ cd' = [cd EXCEPT ![t.e] = [@ EXCEPT !.pos = pos, !.tgt = tgt]]
            /\ UNCHANGED handlers
       ELSE /\ handlers' = (handlers \ {t.h}) \cup {[t.h EXCEPT !.pos = pos, !.tgt = tgt]}
            /\ UNCHANGED cd
    /\ UNCHANGED <<MAP, countdown_future>>

SendVars(e, o) ==
    /\ message' = [message EXCEPT ![e] = o.message]
    /\ thresholds' = [thresholds EXCEPT ![e] = o.thresholds]
    /\ posted' = o.posted
    /\ budget' = o.budget
    /\ notified' = IF o.fired >= 0
                   THEN [notified EXCEPT ![e] = Append(@, o.fired)]
                   ELSE notified
    /\ owed' = IF o.fired >= 0
               THEN [owed EXCEPT ![e] = {T \in Range(o.thresholds) : T >= time_left[e]}]
               ELSE owed
    /\ UNCHANGED refused

\* an awaited call of _send_or_update_message is over, with outcome o
Continue(t, o) ==
    /\ SendVars(TEng(t), o)
    /\ CASE o.pos = "ret" -> Return(t)
         [] o.pos = "raise" -> Raise(t)
         [] OTHER -> Suspend(t, o.pos, o.tgt)
    /\ UNCHANGED <<shutVars, mgrVars, nTimers, author_id, secured, time_left, time_reference,
                   resume_future, shown, displayed, stopped, pausing>>

MessageEdited ==
    \E t \in InSend :
        /\ TPos(t) = "edit" /\ TTgt(t).id \in posted
        /\ Continue(t, EditDone(TEng(t), TTgt(t)))

MessageEditFailed ==
    \E t \in InSend :
        /\ TPos(t) = "edit" /\ (TTgt(t).id \notin posted \/ budget > 0)
        /\ Continue(t, EditFailed(TEng(t), TTgt(t)))

MessageDeleted ==
    \E t \in InSend :
        /\ TPos(t) = "del"
        /\ Continue(t, DeleteDone(TEng(t), TTgt(t)))

MessageCreated ==
    \E t \in InSend :
        /\ TPos(t) = "create"
        /\ Continue(t, CreateDone(TEng(t)))

MessageCreateFailed ==
    \E t \in InSend :
        /\ TPos(t) = "create" /\ budget > 0
        /\ Continue(t, CreateFailed(TEng(t)))

Notified ==
    \E t \in InSend :
        /\ TPos(t) = "notify"
        /\ Continue(t, NotifyDone(TEng(t)))

\* line 504: the message's Discord timestamp is now more than 55 minutes
\* before the wall clock's utcnow(); neither is the event loop's clock
MessageAges(e) ==
    /\ message[e].id # 0 /\ ~message[e].old
    /\ budget > 0
    /\ message' = [message EXCEPT ![e] = [@ EXCEPT !.old = TRUE]]
    /\ budget' = budget - 1
    /\ UNCHANGED <<shutVars, mgrVars, MAP, nTimers, author_id, secured, time_left, time_reference,
                   thresholds, countdown_future, resume_future, cd, handlers,
                   envVars, obsVars>>

\* ------------------------------------------- Timer.run, Timer.countdown
\* lines 346-354 (or line 391 when the loop is over), with time_reference = tref
LoopTop(e, tref) ==
    LET tl == time_left[e]
        o == SendEnter(e, posted)
    IN  /\ time_left' = [time_left EXCEPT ![e] =
               IF tl > 50 THEN tl - Min(tl, Max(0, now - tref)) ELSE tl]
        /\ time_reference' = [time_reference EXCEPT ![e] = IF tl > 50 THEN now ELSE tref]
        /\ cd' = [cd EXCEPT ![e] = [pc |-> IF tl > 50 THEN "loop" ELSE "final",
                                    pos |-> o.pos, tgt |-> o.tgt]]
        /\ SendVars(e, o)
        /\ displayed' = [displayed EXCEPT ![e] = TRUE]
        /\ shown' = [shown EXCEPT ![e] = time_left'[e]]

\* lines 393-399: the task created by the start handler runs
Run(e) ==
    /\ cd[e].pc = "sched"
    /\ MAP' = e
    /\ LoopTop(e, now)
    /\ UNCHANGED <<shutVars, mgrVars, nTimers, author_id, secured, countdown_future,
                   resume_future, handlers, stopped, pausing>>

\* lines 385-389: the interval is over or the sleep was cancelled
CountdownWake(e) ==
    /\ cd[e].pc = "wait_countdown"
    /\ countdown_future[e] = None \/ Woken(countdown_future[e])
    /\ countdown_future' = [countdown_future EXCEPT ![e] = None]
    /\ LoopTop(e, time_reference[e])
    /\ pausing' = [pausing EXCEPT ![e] =
           IF @.st \in {"resumed", "timed_out"} THEN NoPause ELSE @]
    /\ UNCHANGED <<shutVars, mgrVars, MAP, nTimers, author_id, secured, resume_future,
                   handlers, stopped>>

\* what the observation of a pause becomes when the pause is over
Over(p, f) ==
    IF p.st \in {"none", "void"} THEN NoPause
    ELSE IF f.st = "cancelled" THEN [p EXCEPT !.st = "resumed", !.since = 0]
    ELSE [p EXCEPT !.st = "timed_out"]

\* ResumeWake without line 367: the reference of before the pause is kept
ResumeWakeStale(e) ==
    /\ cd[e].pc = "wait_resume"
    /\ Woken(resume_future[e])
    /\ resume_future' = [resume_future EXCEPT ![e] = None]
    /\ LoopTop(e, time_reference[e])
    /\ pausing' = [pausing EXCEPT ![e] = Over(@, resume_future[e])]
    /\ UNCHANGED <<shutVars, mgrVars, MAP, nTimers, author_id, secured, countdown_future,
                   handlers, stopped>>

\* lines 359-367: the pause is over (resumed, stopped or timed out)
ResumeWake(e) ==
    /\ cd[e].pc = "wait_resume"
    /\ Woken(resume_future[e])
    /\ resume_future' = [resume_future EXCEPT ![e] = None]
    /\ LoopTop(e, now)
    /\ pausing' = [pausing EXCEPT ![e] = Over(@, resume_future[e])]
    /\ UNCHANGED <<shutVars, mgrVars, MAP, nTimers, author_id, secured, countdown_future,
                   handlers, stopped>>

\* ---------------------------------------------------- handle_command
\* a number no suspended handler has: two handlers of the same command are two
FreshN == CHOOSE i \in 1..(Cardinality(handlers) + 1) : \A h \in handlers : h.n # i

Handler(cmd, e, pc, pos, tgt, resume) ==
    [cmd |-> cmd, eng |-> e, pc |-> pc, pos |-> pos, tgt |-> tgt,
     resume |-> resume, n |-> FreshN]

\* lines 186-219: /timer start, up to the first display
Start(u, opt, s) ==
    LET e == nTimers + 1
        total_time == Sec(opt[1] * 3600 + opt[2] * 60)
        o == CreateStep(e, NoMessage, posted, budget)
    IN  /\ nTimers < MaxTimers /\ budget > 0
        /\ MAP = 0
        /\ total_time # 0
        /\ nTimers' = e
        /\ author_id' = [author_id EXCEPT ![e] = u]
        /\ secured' = [secured EXCEPT ![e] = s]
        /\ time_reference' = [time_reference EXCEPT ![e] = 0]
        /\ time_left' = [time_left EXCEPT ![e] = total_time]
        /\ thresholds' = [thresholds EXCEPT ![e] = InitialThresholds(total_time)]
        /\ message' = [message EXCEPT ![e] = NoMessage]
        /\ countdown_future' = [countdown_future EXCEPT ![e] = None]
        /\ resume_future' = [resume_future EXCEPT ![e] = None]
        /\ handlers' = handlers \cup
               {Handler("start", e, "start", o.pos, o.tgt, FALSE)}
        /\ budget' = budget - 1
        /\ shown' = [shown EXCEPT ![e] = total_time]
        /\ UNCHANGED <<shutVars, mgrVars, MAP, cd, posted, notified, owed, refused, displayed,
                       stopped, pausing>>

\* ------------------------------------------ command_existing_timer
\* Accepted without the test of line 258
AcceptedAnyUser(u) ==
    /\ budget > 0
    /\ MAP # 0

\* lines 248-269: the command reaches the channel's Timer, and the caller
\* may manipulate it
Accepted(u) ==
    /\ budget > 0
    /\ MAP # 0
    /\ ~(secured[MAP] /\ u # author_id[MAP])

\* lines 258-269: the Timer is secured and the caller is not its author: the
\* command is answered "Unauthorized" and the handler returns
Unauthorized(u) ==
    /\ budget > 0
    /\ MAP # 0
    /\ secured[MAP] /\ u # author_id[MAP]
    /\ budget' = budget - 1
    /\ refused' = refused + 1
    /\ UNCHANGED <<shutVars, mgrVars, MAP, nTimers, timerVars, cd, handlers, posted, notified,
                   owed, shown, displayed, stopped, pausing>>

\* a pause that is under way is no longer the plain pause its record describes
Void(p) == IF p.st = "none" THEN p ELSE [st |-> "void", at |-> 0, ran |-> 0, since |-> 0]

\* lines 455-462: Timer.refresh after its _delete_message; h is the handler,
\* were it to suspend in _send_or_update_message, and d tells whether the
\* Timer has started a display since the last command, tl its time_left
RefreshRest(e, old, h, post, d, tl) ==
    IF resume_future[e] # None
    THEN IF h.resume
         THEN /\ resume_future' = [resume_future EXCEPT ![e] = Cancel(@)]
              /\ handlers' = old
              /\ posted' = post
              /\ displayed' = [displayed EXCEPT ![e] = d]
              /\ UNCHANGED <<countdown_future, message, thresholds, shown>>
         ELSE LET o == SendEnter(e, post)
              IN  /\ handlers' = old \cup {[h EXCEPT !.pc = "refresh", !.pos = o.pos,
                                                     !.tgt = o.tgt]}
                  /\ message' = [message EXCEPT ![e] = o.message]
                  /\ posted' = o.posted
                  /\ displayed' = [displayed EXCEPT ![e] = TRUE]
                  /\ shown' = [shown EXCEPT ![e] = tl]
                  /\ UNCHANGED <<countdown_future, resume_future, thresholds>>
    ELSE /\ countdown_future' = [countdown_future EXCEPT ![e] =
                 IF @ # None THEN Cancel(@) ELSE @]
         /\ handlers' = old
         /\ posted' = post
         /\ displayed' = [displayed EXCEPT ![e] = d]
         /\ UNCHANGED <<resume_future, message, thresholds, shown>>

\* lines 451-454: Timer.refresh, up to its first await
Refresh(e, h, tl) ==
    IF message[e].id # 0
    THEN /\ message' = [message EXCEPT ![e] = NoMessage]
         /\ handlers' = handlers \cup {[h EXCEPT !.pc = "refresh_del", !.tgt = message[e]]}
         /\ displayed' = [displayed EXCEPT ![e] = FALSE]
         /\ UNCHANGED <<countdown_future, resume_future, thresholds, posted, shown>>
    ELSE RefreshRest(e, handlers, h, posted, FALSE, tl)

\* lines 282-293: resume (refresh()) and display (refresh(resume=False))
RefreshCmd(u, resume) ==
    /\ Accepted(u)
    /\ Refresh(MAP, Handler(IF resume THEN "resume" ELSE "display", MAP,
                            "none", "none", NoMessage, resume), time_left[MAP])
    /\ budget' = budget - 1
    /\ UNCHANGED <<shutVars, mgrVars, MAP, nTimers, author_id, secured, time_left, time_reference, cd,
                   notified, owed, refused, stopped, pausing>>

\* lines 294-307: add and sub (minutes < 0) change time_left, then refresh
AdjustCmd(u, minutes) ==
    /\ Accepted(u)
    /\ time_left' = [time_left EXCEPT ![MAP] = @ + Sec(minutes * 60)]
    /\ Refresh(MAP, Handler(IF minutes > 0 THEN "add" ELSE "sub", MAP,
                            "none", "none", NoMessage, FALSE),
               time_left[MAP] + Sec(minutes * 60))
    /\ budget' = budget - 1
    /\ pausing' = [pausing EXCEPT ![MAP] = Void(@)]
    /\ UNCHANGED <<shutVars, mgrVars, MAP, nTimers, author_id, secured, time_reference, cd,
                   notified, owed, refused, stopped>>

\* line 419 of the _delete_message called by refresh returned
RefreshDeleted(h) ==
    /\ h \in handlers /\ h.pc = "refresh_del"
    /\ RefreshRest(h.eng, handlers \ {h}, [h EXCEPT !.tgt = NoMessage],
                   posted \ {h.tgt.id}, displayed[h.eng], time_left[h.eng])
    /\ UNCHANGED <<shutVars, mgrVars, MAP, nTimers, author_id, secured, time_left, time_reference,
                   cd, budget, notified, owed, refused, stopped, pausing>>

\* what a pause() that returns at line 443 found: the pause it would have
\* started is under way ("again"), was just resumed ("lost") or has just timed
\* out ("late")
Found(p, f, s) ==
    IF s # "no" \/ p.st = "void" THEN [st |-> "void", at |-> 0, ran |-> 0, since |-> 0]
    ELSE [p EXCEPT !.st = IF f.st = "cancelled" THEN "lost"
                          ELSE IF Woken(f) THEN "late" ELSE "again"]

\* Timer.pause without the test of lines 442-443
PauseAlways(e) ==
    /\ resume_future' = [resume_future EXCEPT ![e] = Sleep(PAUSE_TIMEOUT)]
    /\ countdown_future' = [countdown_future EXCEPT ![e] = None]
    /\ pausing' = [pausing EXCEPT ![e] =
           IF resume_future[e] # None THEN Found(@, resume_future[e], stopped[e])
           ELSE [st |-> "first", at |-> time_left[e],
                 ran |-> Max(0, now - time_reference[e]), since |-> 0]]

\* Timer.pause without lines 447-449: the sleep of the countdown is kept
PauseNoCancel(e) ==
    IF resume_future[e] # None
    THEN /\ UNCHANGED <<resume_future, countdown_future>>
         /\ pausing' = [pausing EXCEPT ![e] = Found(@, resume_future[e], stopped[e])]
    ELSE /\ resume_future' = [resume_future EXCEPT ![e] = Sleep(PAUSE_TIMEOUT)]
         /\ UNCHANGED countdown_future
         /\ pausing' = [pausing EXCEPT ![e] =
                [st |-> "first", at |-> time_left[e],
                 ran |-> Max(0, now - time_reference[e]), since |-> 0]]

\* Timer.pause with a sleep of twice PAUSE_TIMEOUT at line 445
PauseLong(e) ==
    IF resume_future[e] # None
    THEN /\ UNCHANGED <<resume_future, countdown_future>>
         /\ pausing' = [pausing EXCEPT ![e] = Found(@, resume_future[e], stopped[e])]
    ELSE /\ resume_future' = [resume_future EXCEPT ![e] = Sleep(2 * PAUSE_TIMEOUT)]
         /\ countdown_future' = [countdown_future EXCEPT ![e] = None]
         /\ pausing' = [pausing EXCEPT ![e] =
                [st |-> "first", at |-> time_left[e],
                 ran |-> Max(0, now - time_reference[e]), since |-> 0]]

\* lines 439-449: Timer.pause
Pause(e) ==
    IF resume_future[e] # None
    THEN /\ UNCHANGED <<resume_future, countdown_future>>
         /\ pausing' = [pausing EXCEPT ![e] = Found(@, resume_future[e], stopped[e])]
    ELSE /\ resume_future' = [resume_future EXCEPT ![e] = Sleep(PAUSE_TIMEOUT)]
         /\ countdown_future' = [countdown_future EXCEPT ![e] = None]
         /\ pausing' = [pausing EXCEPT ![e] =
                [st |-> "first", at |-> time_left[e],
                 ran |-> Max(0, now - time_reference[e]), since |-> 0]]

\* lines 276-281
PauseCmd(u) ==
    /\ Accepted(u)
    /\ Pause(MAP)
    /\ displayed' = [displayed EXCEPT ![MAP] = IF resume_future[MAP] # None THEN @ ELSE FALSE]
    /\ UNCHANGED shown
    /\ budget' = budget - 1
    /\ UNCHANGED <<shutVars, mgrVars, MAP, nTimers, author_id, secured, time_left, time_reference,
                   thresholds, message, cd, handlers, posted, notified, owed, refused,
                   stopped>>

\* lines 431-437: Timer.stop from "self.time_left = -1" to its last await
StopMark(e, old, h) ==
    /\ time_left' = [time_left EXCEPT ![e] = Sec(-1)]
    /\ countdown_future' = [countdown_future EXCEPT ![e] = IF @ # None THEN Cancel(@) ELSE @]
    /\ resume_future' = [resume_future EXCEPT ![e] = IF @ # None THEN Cancel(@) ELSE @]
    /\ message' = [message EXCEPT ![e] = NoMessage]
    /\ handlers' = old \cup
           {IF message[e].id # 0
            THEN [h EXCEPT !.pc = "stop_del", !.tgt = message[e]]
            ELSE [h EXCEPT !.pc = "stop_reply"]}
    /\ stopped' = [stopped EXCEPT ![e] = "marked"]
    /\ displayed' = [displayed EXCEPT ![e] = FALSE]
    /\ pausing' = [pausing EXCEPT ![e] = Void(@)]

\* lines 270-271 and 423-430: stop, up to its first await
StopCmd(u) ==
    /\ Accepted(u)
    /\ IF time_left[MAP] >= 50
       THEN /\ handlers' = handlers \cup
                   {Handler("stop", MAP, "stop_msg", "none", NoMessage, FALSE)}
            /\ UNCHANGED <<time_left, countdown_future, resume_future, message,
                           displayed, stopped, pausing>>
       ELSE StopMark(MAP, handlers, Handler("stop", MAP, "none", "none", NoMessage, FALSE))
    /\ budget' = budget - 1
    /\ UNCHANGED <<shutVars, mgrVars, MAP, nTimers, author_id, secured, time_reference, thresholds,
                   cd, posted, notified, owed, refused, shown>>

\* line 427 returned: the "Stopped with ..." message is in the channel
StopMessageSent(h) ==
    /\ h \in handlers /\ h.pc = "stop_msg"
    /\ StopMark(h.eng, handlers \ {h}, h)
    /\ UNCHANGED <<shutVars, mgrVars, MAP, nTimers, author_id, secured, time_reference, thresholds,
                   cd, posted, budget, notified, owed, refused, shown>>

\* line 437 returned: the timer message is deleted
StopMessageDeleted(h) ==
    /\ h \in handlers /\ h.pc = "stop_del"
    /\ posted' = posted \ {h.tgt.id}
    /\ handlers' = (handlers \ {h}) \cup {[h EXCEPT !.pc = "stop_reply", !.tgt = NoMessage]}
    /\ UNCHANGED <<shutVars, mgrVars, MAP, nTimers, timerVars, cd, budget, obsVars>>

\* lines 272-275: "Timer stopped" is answered and the handler returns
StopReplied(h) ==
    /\ h \in handlers /\ h.pc = "stop_reply"
    /\ handlers' = handlers \ {h}
    /\ stopped' = [stopped EXCEPT ![h.eng] = "returned"]
    /\ UNCHANGED <<shutVars, mgrVars, MAP, nTimers, timerVars, cd, posted, budget, notified, owed, refused,
                   shown, displayed, pausing>>

\* ------------------------------------------------------------ the clock
\* a coroutine can run at once
Ready ==
    \E e \in Engines :
        \/ cd[e].pc = "sched"
        \/ cd[e].pc = "wait_countdown"
             /\ (countdown_future[e] = None \/ Woken(countdown_future[e]))
        \/ cd[e].pc = "wait_resume" /\ Woken(resume_future[e])
\* the moments at which a sleep will be over
Dues ==
    {f.due : f \in {x \in {countdown_future[e] : e \in Engines}
                            \cup {resume_future[e] : e \in Engines} :
                        x.st = "pending" /\ x.due > now}}
Busy == handlers # {} \/ \E e \in Engines : cd[e].pc \notin {"none", "done"}
NextDue == IF Dues = {} THEN now ELSE CHOOSE d \in Dues : \A x \in Dues : d <= x

\* a call to Discord is in flight
InFlight == handlers # {} \/ \E e \in Engines : cd[e].pc \in {"loop", "final"}

\* the clock moves on by d: every reading still in use is d further back
Later(f, d) == IF f.st = "pending" THEN [f EXCEPT !.due = Max(0, @ - d)] ELSE f
Advance(d) ==
    /\ time_reference' = [e \in Engines |->
           IF cd[e].pc \in {"loop", "wait_countdown", "wait_resume"}
           THEN time_reference[e] - d ELSE time_reference[e]]
    /\ countdown_future' = [e \in Engines |-> Later(countdown_future[e], d)]
    /\ resume_future' = [e \in Engines |-> Later(resume_future[e], d)]
    /\ pausing' = [e \in Engines |->
           IF pausing[e].st \in {"first", "again"}
           THEN [pausing[e] EXCEPT !.since = @ + d] ELSE pausing[e]]
    /\ UNCHANGED <<shutVars, mgrVars, MAP, nTimers, author_id, secured, time_left, thresholds, message,
                   cd, handlers, envVars, notified, owed, refused, shown,
                   displayed, stopped>>

\* every coroutine sleeps: the loop waits until the next sleep is over
TickToDeadline ==
    /\ ~Ready /\ ~InFlight /\ Dues # {}
    /\ Advance(NextDue)
    /\ UNCHANGED budget

\* time passes while a call is in flight, or before the next command arrives
TickLag ==
    /\ ~Ready /\ Busy /\ budget > 0
    /\ Advance(IF Dues = {} THEN LagStep ELSE Min(LagStep, NextDue))
    /\ budget' = budget - 1

\* ------------------------------------------------------------ shutdown
\* lines 157-162: the listener of StoppingEvent calls stop("Server shutdown")
\* on every Timer of MAP, which constructs the coroutines and runs none, and
\* passes their list as the one argument of asyncio.gather, which raises
\* TypeError: no coroutine is ever awaited
Stopping ==
    /\ stopping.st = "no" /\ budget > 0
    /\ stopping' = [st |-> "raised", timers |-> {MAP} \ {0}]
    /\ budget' = budget - 1
    /\ UNCHANGED <<mgrVars, MAP, nTimers, timerVars, cd, handlers, posted, obsVars>>

\* ------------------------------------------------- bot.py: TimerManager
\* No timer.Timer is modelled: the display callback is called with any
\* time_left, and a call may come while another is under way.
TimerManager_THRESHOLDS == <<Sec(60), Sec(300), Sec(900), Sec(1800)>>
\* _next_threshold returns None
NoThreshold == 0
\* the initial_time of the TimerManager
InitialTimes == {Sec(120), Sec(7300)}
\* the time_left the callback is called with
TimeLefts == {0, Sec(45), Sec(250), Sec(1000), Sec(3650)}
Calls == 1..MaxCalls
NoCall == [pc |-> "idle", time_left |-> 0]

\* _next_threshold with "t <= time" in the filter of line 152 and without
\* the "- 0.1" of line 151
_next_threshold_at(time) ==
    LET t == time \div 100
        available == SeqFilter(TimerManager_THRESHOLDS, Sec(t) + 1)
    IN  IF t > 3600 THEN Sec((t \div 3600) * 3600)
        ELSE IF available # <<>> THEN Last(available)
        ELSE NoThreshold

\* lines 147-155
_next_threshold(time) ==
    LET t == time \div 100
        available == SeqFilter(TimerManager_THRESHOLDS, Sec(t))
    IN  IF t > 3600 THEN Sec(((t * 10 - 1) \div 36000) * 3600)
        ELSE IF available # <<>> THEN Last(available)
        ELSE NoThreshold

\* lines 184-187: the thresholds at or above time_left are consumed; the last
\* one consumed is kept (0: none), the others are passed over
RECURSIVE Consume(_, _, _, _)
Consume(thr, tl, threshold, over) ==
    IF thr # NoThreshold /\ thr >= tl
    THEN Consume(_next_threshold(thr), tl, thr,
                 IF threshold # NoThreshold THEN over \cup {threshold} ELSE over)
    ELSE [rest |-> thr, threshold |-> threshold, over |-> over]

\* lines 161-176: the lock is taken; an edit if the message is not 60 minutes
\* old, or else a new message
Locked(c, tl) ==
    /\ calls' = [calls EXCEPT ![c] =
           [pc |-> IF manager.message = "fresh" THEN "edit" ELSE "replace",
            time_left |-> tl]]
    /\ manager' = [manager EXCEPT !.locked = TRUE,
                                  !.waiters = SeqFilterOut(@, c)]

\* lines 157-161: the timer calls the display callback
ManagerCall(tl) ==
    LET c == CHOOSE i \in Calls :
                 calls[i].pc = "idle" /\ \A j \in Calls : calls[j].pc = "idle" => i <= j
    IN  /\ calls_left > 0
        /\ \E i \in Calls : calls[i].pc = "idle"
        /\ calls_left' = calls_left - 1
        /\ IF ~manager.locked /\ manager.waiters = <<>>
           THEN Locked(c, tl)
           ELSE /\ calls' = [calls EXCEPT ![c] = [pc |-> "lock", time_left |-> tl]]
                /\ manager' = [manager EXCEPT !.waiters = Append(@, c)]
        /\ UNCHANGED <<sent, shutVars, MAP, nTimers, timerVars, cd, handlers, envVars, budgetVars,
                       obsVars>>

\* line 161: the lock is free and the call is the first that waits for it
LockAcquired(c) ==
    /\ calls[c].pc = "lock"
    /\ ~manager.locked /\ Head(manager.waiters) = c
    /\ Locked(c, calls[c].time_left)
    /\ UNCHANGED <<calls_left, sent, shutVars, MAP, nTimers, timerVars, cd, handlers, envVars,
                   budgetVars, obsVars>>

\* ThresholdPart with an "if" in place of the "while" of line 185
ThresholdPartIf(c, msg) ==
    LET tl == calls[c].time_left
        thr == manager.threshold
        r == IF thr # NoThreshold /\ thr >= tl
             THEN [rest |-> _next_threshold(thr), threshold |-> thr, over |-> {}]
             ELSE [rest |-> thr, threshold |-> NoThreshold, over |-> {}]
    IN  /\ manager' = [manager EXCEPT !.locked = FALSE, !.message = msg,
                                      !.threshold = r.rest]
        /\ calls' = [calls EXCEPT ![c] =
               IF r.threshold # NoThreshold THEN [@ EXCEPT !.pc = "notify"]
               ELSE IF tl <= 0 THEN [@ EXCEPT !.pc = "finished"]
               ELSE NoCall]
        /\ sent' = IF r.threshold # NoThreshold
                   THEN Append(sent, [threshold |-> r.threshold, time_left |-> tl,
                                      over |-> r.over])
                   ELSE sent

\* lines 182-199, up to the first await: the lock is released, the next
\* threshold is set and the last threshold consumed is notified
ThresholdPart(c, msg) ==
    LET tl == calls[c].time_left
        r == Consume(manager.threshold, tl, NoThreshold, {})
    IN  /\ manager' = [manager EXCEPT !.locked = FALSE, !.message = msg,
                                      !.threshold = r.rest]
        /\ calls' = [calls EXCEPT ![c] =
               IF r.threshold # NoThreshold THEN [@ EXCEPT !.pc = "notify"]
               ELSE IF tl <= 0 THEN [@ EXCEPT !.pc = "finished"]
               ELSE NoCall]
        /\ sent' = IF r.threshold # NoThreshold
                   THEN Append(sent, [threshold |-> r.threshold, time_left |-> tl,
                                      over |-> r.over])
                   ELSE sent

\* lines 170-171: the edit is done
ManagerEdited(c) ==
    /\ calls[c].pc = "edit"
    /\ ThresholdPart(c, manager.message)
    /\ UNCHANGED <<calls_left, shutVars, MAP, nTimers, timerVars, cd, handlers, envVars,
                   budgetVars, obsVars>>

\* lines 172-175: the edit raised NotFoundError (the message is dropped) or
\* another HikariError: a new message is sent
ManagerEditFailed(c, not_found) ==
    /\ calls[c].pc = "edit"
    /\ calls_left > 0
    /\ calls_left' = calls_left - 1
    /\ calls' = [calls EXCEPT ![c] = [@ EXCEPT !.pc = "replace"]]
    /\ manager' = [manager EXCEPT !.message = IF not_found THEN "none" ELSE @]
    /\ UNCHANGED <<sent, shutVars, MAP, nTimers, timerVars, cd, handlers, envVars, budgetVars,
                   obsVars>>

\* lines 176-181: the new message is created and the old one deleted
ManagerReplaced(c) ==
    /\ calls[c].pc = "replace"
    /\ ThresholdPart(c, "fresh")
    /\ UNCHANGED <<calls_left, shutVars, MAP, nTimers, timerVars, cd, handlers, envVars,
                   budgetVars, obsVars>>

\* the gather of line 177 raised: the lock is released and the call is over
ManagerReplaceFailed(c) ==
    /\ calls[c].pc = "replace"
    /\ calls_left > 0
    /\ calls_left' = calls_left - 1
    /\ calls' = [calls EXCEPT ![c] = NoCall]
    /\ manager' = [manager EXCEPT !.locked = FALSE]
    /\ UNCHANGED <<sent, shutVars, MAP, nTimers, timerVars, cd, handlers, envVars, budgetVars,
                   obsVars>>

\* lines 189-199: the notification is sent; "timer finished" follows at 0
ThresholdNotified(c) ==
    /\ calls[c].pc = "notify"
    /\ calls' = [calls EXCEPT ![c] =
           IF @.time_left <= 0 THEN [@ EXCEPT !.pc = "finished"] ELSE NoCall]
    /\ UNCHANGED <<manager, calls_left, sent, shutVars, MAP, nTimers, timerVars, cd, handlers,
                   envVars, budgetVars, obsVars>>

\* line 195 returned
FinishedNotified(c) ==
    /\ calls[c].pc = "finished"
    /\ calls' = [calls EXCEPT ![c] = NoCall]
    /\ UNCHANGED <<manager, calls_left, sent, shutVars, MAP, nTimers, timerVars, cd, handlers,
                   envVars, budgetVars, obsVars>>

\* lines 165-168: the message is now 60 minutes old
ManagerMessageAges ==
    /\ manager.message = "fresh"
    /\ calls_left > 0
    /\ calls_left' = calls_left - 1
    /\ manager' = [manager EXCEPT !.message = "old"]
    /\ UNCHANGED <<calls, sent, shutVars, MAP, nTimers, timerVars, cd, handlers, envVars,
                   budgetVars, obsVars>>

\* lines 132-145: TimerManager.__init__
ManagerInit(initial_time) ==
    /\ manager = [threshold |-> _next_threshold(initial_time), message |-> "none",
                  locked |-> FALSE, waiters |-> <<>>]
    /\ calls = [c \in Calls |-> NoCall]
    /\ sent = <<>>

ManagerSteps ==
    \/ \E tl \in TimeLefts : ManagerCall(tl)
    \/ \E c \in Calls : LockAcquired(c)
    \/ \E c \in Calls : ManagerEdited(c)
    \/ \E c \in Calls, not_found \in BOOLEAN : ManagerEditFailed(c, not_found)
    \/ \E c \in Calls : ManagerReplaced(c)
    \/ \E c \in Calls : ManagerReplaceFailed(c)
    \/ \E c \in Calls : ThresholdNotified(c)
    \/ \E c \in Calls : FinishedNotified(c)
    \/ ManagerMessageAges

\* ------------------------------------------------------ specifications
InitWith(b) ==
    /\ MAP = 0
    /\ nTimers = 0
    /\ author_id = [e \in Engines |-> "A"]
    /\ secured = [e \in Engines |-> FALSE]
    /\ time_left = [e \in Engines |-> 0]
    /\ time_reference = [e \in Engines |-> 0]
    /\ thresholds = [e \in Engines |-> <<>>]
    /\ message = [e \in Engines |-> NoMessage]
    /\ countdown_future = [e \in Engines |-> None]
    /\ resume_future = [e \in Engines |-> None]
    /\ cd = [e \in Engines |-> Idle]
    /\ handlers = {}
    /\ posted = {}
    /\ budget = b
    /\ notified = [e \in Engines |-> <<>>]
    /\ owed = [e \in Engines |-> {}]
    /\ refused = 0
    /\ displayed = [e \in Engines |-> TRUE]
    /\ stopping = NoStopping
    /\ shown = [e \in Engines |-> 0]
    /\ stopped = [e \in Engines |-> "no"]
    /\ pausing = [e \in Engines |-> NoPause]

\* timer_bot.py runs: no TimerManager is called
TimerBotInit(b) ==
    /\ InitWith(b)
    /\ ManagerInit(0)
    /\ calls_left = 0

\* bot.py runs, with a TimerManager constructed: no command of timer_bot.py comes
BotInit ==
    /\ InitWith(0)
    /\ \E initial_time \in InitialTimes : ManagerInit(initial_time)
    /\ calls_left = MaxManagerEvents

Init == TimerBotInit(MaxEvents) \/ BotInit

\* every step but the start command
Steps ==
    \/ \E e \in Engines : Run(e)
    \/ \E e \in Engines : CountdownWake(e)
    \/ \E e \in Engines : ResumeWake(e)
    \/ MessageEdited
    \/ MessageEditFailed
    \/ MessageDeleted
    \/ MessageCreated
    \/ MessageCreateFailed
    \/ Notified
    \/ \E e \in Engines : MessageAges(e)
    \/ \E u \in Users : StopCmd(u)
    \/ \E u \in Users : PauseCmd(u)
    \/ \E u \in Users, resume \in BOOLEAN : RefreshCmd(u, resume)
    \/ \E u \in Users, m \in MinuteOptions : AdjustCmd(u, m)
    \/ \E u \in Users, m \in MinuteOptions : AdjustCmd(u, -m)
    \/ \E h \in handlers : RefreshDeleted(h)
    \/ \E h \in handlers : StopMessageSent(h)
    \/ \E h \in handlers : StopMessageDeleted(h)
    \/ \E h \in handlers : StopReplied(h)
    \/ TickToDeadline
    \/ TickLag

Next ==
    \/ \E opt \in StartOptions : Start("A", opt, FALSE)
    \/ Steps
    \/ ManagerSteps

Spec == Init /\ [][Next]_vars

\* the executions with no add and no sub command
NextNoAdjust ==
    \/ \E opt \in StartOptions : Start("A", opt, FALSE)
    \/ \E e \in Engines : Run(e)
    \/ \E e \in Engines : CountdownWake(e)
    \/ \E e \in Engines : ResumeWake(e)
    \/ MessageEdited
    \/ MessageEditFailed
    \/ MessageDeleted
    \/ MessageCreated
    \/ MessageCreateFailed
    \/ Notified
    \/ \E e \in Engines : MessageAges(e)
    \/ \E u \in Users : StopCmd(u)
    \/ \E u \in Users : PauseCmd(u)
    \/ \E u \in Users, resume \in BOOLEAN : RefreshCmd(u, resume)
    \/ \E h \in handlers : RefreshDeleted(h)
    \/ \E h \in handlers : StopMessageSent(h)
    \/ \E h \in handlers : StopMessageDeleted(h)
    \/ \E h \in handlers : StopReplied(h)
    \/ TickToDeadline
    \/ TickLag

SpecNoAdjust == TimerBotInit(MaxEvents) /\ [][NextNoAdjust]_vars

\* the executions of one Timer with pause, resume and display commands alone,
\* and no call failing but the edit of a message that is gone
NextPause ==
    \/ nTimers = 0 /\ \E opt \in StartOptions : Start("A", opt, FALSE)
    \/ \E e \in Engines : Run(e)
    \/ \E e \in Engines : CountdownWake(e)
    \/ \E e \in Engines : ResumeWake(e)
    \/ MessageEdited
    \/ MessageEditFailed
    \/ MessageDeleted
    \/ MessageCreated
    \/ Notified
    \/ \E u \in Users : PauseCmd(u)
    \/ \E u \in Users, resume \in BOOLEAN : RefreshCmd(u, resume)
    \/ \E h \in handlers : RefreshDeleted(h)
    \/ TickToDeadline
    \/ TickLag

SpecPause == TimerBotInit(MaxPauseEvents) /\ [][NextPause]_vars

\* the same executions on an event loop that runs every coroutine that can
\* run and lets the clock reach the next sleep that is due, with calls to
\* Discord that all return or raise in the end
SpecPauseFair ==
    /\ SpecPause
    /\ WF_vars(\E e \in Engines : Run(e))
    /\ WF_vars(\E e \in Engines : CountdownWake(e))
    /\ WF_vars(\E e \in Engines : ResumeWake(e))
    /\ WF_vars(MessageEdited \/ MessageEditFailed)
    /\ WF_vars(MessageDeleted)
    /\ WF_vars(MessageCreated)
    /\ WF_vars(Notified)
    /\ WF_vars(\E h \in handlers : RefreshDeleted(h))
    /\ WF_vars(TickToDeadline)

\* the executions of one Timer, secured or not, with commands of its author
\* and of another user
NextSecured ==
    \/ nTimers = 0 /\ \E opt \in StartOptions, s \in BOOLEAN : Start("A", opt, s)
    \/ Steps
    \/ \E u \in Users : Unauthorized(u)

SpecSecured == TimerBotInit(MaxSecuredEvents) /\ [][NextSecured]_vars

\* the executions of one Timer that is never stopped, with add, pause, resume
\* and display commands, and no call failing but the edit of a message
NextComplete ==
    \/ nTimers = 0 /\ \E opt \in StartOptions : Start("A", opt, FALSE)
    \/ \E e \in Engines : Run(e)
    \/ \E e \in Engines : CountdownWake(e)
    \/ \E e \in Engines : ResumeWake(e)
    \/ MessageEdited
    \/ MessageEditFailed
    \/ MessageDeleted
    \/ MessageCreated
    \/ Notified
    \/ \E u \in Users : PauseCmd(u)
    \/ \E u \in Users, resume \in BOOLEAN : RefreshCmd(u, resume)
    \/ \E u \in Users, m \in MinuteOptions : AdjustCmd(u, m)
    \/ \E h \in handlers : RefreshDeleted(h)
    \/ TickToDeadline
    \/ TickLag

SpecComplete == TimerBotInit(MaxCompleteEvents) /\ [][NextComplete]_vars

\* the same executions on an event loop that runs every coroutine that can
\* run and lets the clock reach the next sleep that is due, with calls to
\* Discord that all return in the end
SpecCompleteFair ==
    /\ SpecComplete
    /\ WF_vars(\E e \in Engines : Run(e))
    /\ WF_vars(\E e \in Engines : CountdownWake(e))
    /\ WF_vars(\E e \in Engines : ResumeWake(e))
    /\ WF_vars(MessageEdited \/ MessageEditFailed)
    /\ WF_vars(MessageDeleted)
    /\ WF_vars(MessageCreated)
    /\ WF_vars(Notified)
    /\ WF_vars(\E h \in handlers : RefreshDeleted(h))
    /\ WF_vars(TickToDeadline)

\* the executions of timer_bot.py in which the bot is shut down
NextShutdown ==
    \/ \E opt \in StartOptions : Start("A", opt, FALSE)
    \/ Steps
    \/ Stopping

SpecShutdown == TimerBotInit(MaxShutdownEvents) /\ [][NextShutdown]_vars

\* the "hours" and "minutes" options of the /timer start of SpecStart
HourOptions == {<<0, 2>>, <<1, 0>>, <<1, 1>>, <<2, 0>>}

\* the executions of a Timer of minutes or hours that is started and left to
\* count down, with every call to Discord succeeding
NextStart ==
    \/ \E opt \in HourOptions : Start("A", opt, FALSE)
    \/ \E e \in Engines : Run(e)
    \/ \E e \in Engines : CountdownWake(e)
    \/ MessageEdited
    \/ MessageCreated
    \/ Notified
    \/ TickToDeadline

SpecStart == TimerBotInit(MaxStartEvents) /\ [][NextStart]_vars

\* the extra time a slow call to Discord takes in SpecCadence
CadenceLags == {50, Sec(6)}

\* the call to Discord of a display of the loop takes d more
TickLagBy(d) ==
    /\ ~Ready /\ budget > 0
    /\ Dues = {} /\ \E e \in Engines : cd[e].pc = "loop"
    /\ Advance(d)
    /\ budget' = budget - 1

\* the executions of a Timer of two minutes that is started and left to count
\* down, every call to Discord succeeding, some of them after an extra half
\* second or six seconds
NextCadence ==
    \/ \E opt \in StartOptions : Start("A", opt, FALSE)
    \/ \E e \in Engines : Run(e)
    \/ \E e \in Engines : CountdownWake(e)
    \/ MessageEdited
    \/ MessageCreated
    \/ Notified
    \/ TickToDeadline
    \/ \E d \in CadenceLags : TickLagBy(d)

SpecCadence == TimerBotInit(MaxCadenceEvents) /\ [][NextCadence]_vars

\* the executions of one Timer with stop, pause, resume and display commands,
\* and no call failing but the edit of a message that is gone
NextStop ==
    \/ nTimers = 0 /\ \E opt \in StartOptions : Start("A", opt, FALSE)
    \/ \E e \in Engines : Run(e)
    \/ \E e \in Engines : CountdownWake(e)
    \/ \E e \in Engines : ResumeWake(e)
    \/ MessageEdited
    \/ MessageEditFailed
    \/ MessageDeleted
    \/ MessageCreated
    \/ Notified
    \/ \E u \in Users : StopCmd(u)
    \/ \E h \in handlers : StopMessageSent(h)
    \/ \E h \in handlers : StopMessageDeleted(h)
    \/ \E h \in handlers : StopReplied(h)
    \/ \E u \in Users : PauseCmd(u)
    \/ \E u \in Users, resume \in BOOLEAN : RefreshCmd(u, resume)
    \/ \E h \in handlers : RefreshDeleted(h)
    \/ TickToDeadline

SpecStop == TimerBotInit(MaxStopEvents) /\ [][NextStop]_vars

\* the same executions on an event loop that runs every coroutine that can
\* run and lets the clock reach the next sleep that is due, with calls to
\* Discord that all return or raise in the end
SpecStopFair ==
    /\ SpecStop
    /\ WF_vars(\E e \in Engines : Run(e))
    /\ WF_vars(\E e \in Engines : CountdownWake(e))
    /\ WF_vars(\E e \in Engines : ResumeWake(e))
    /\ WF_vars(MessageEdited \/ MessageEditFailed)
    /\ WF_vars(MessageDeleted)
    /\ WF_vars(MessageCreated)
    /\ WF_vars(Notified)
    /\ WF_vars(\E h \in handlers : RefreshDeleted(h))
    /\ WF_vars(\E h \in handlers : StopMessageSent(h))
    /\ WF_vars(\E h \in handlers : StopMessageDeleted(h))
    /\ WF_vars(\E h \in handlers : StopReplied(h))
    /\ WF_vars(TickToDeadline)

\* the initial_time, in seconds, of the TimerManager of SpecThreshold
ThresholdTimes == {301, 7201}

\* bot.py runs with a TimerManager of any of these times, whose constructor
\* and display callback apply _next_threshold
ThresholdInit ==
    /\ InitWith(0)
    /\ \E initial_time \in ThresholdTimes : ManagerInit(Sec(initial_time))
    /\ calls_left = MaxThresholdEvents

SpecThreshold == ThresholdInit /\ [][ManagerSteps]_vars

\* ------------------------------------------------------- observations
\* the task of Timer.run is inside the loop of countdown (lines 346-389)
Counting(e) == cd[e].pc \in {"loop", "wait_countdown", "wait_resume"}

\* ------------------------------------------------------------- claims
\* C1: registry exclusivity: whatever the interleaving of start commands, at
\* every moment at most one Timer of the channel is counting down, and the
\* registry entry refers to it
C1_RegistryExclusive ==
    \A e \in Engines :
        Counting(e) => MAP = e /\ \A f \in Engines : Counting(f) => f = e

\* C2 as stated: the time_left observed right after a resume (explicit or by
\* timeout) equals the time_left at the moment pause() was issued
C2_ResumeFindsTimeLeftOfPause ==
    \A e \in Engines :
        pausing[e].st \in {"resumed", "timed_out"} => time_left[e] = pausing[e].at

\* C2, amended: the time_left observed right after a resume is the time_left
\* at the moment pause() was issued, less at most the time the Timer had run
\* since its last display when it was paused; the time spent paused is never
\* subtracted
C2_PausedTimeIsNotSubtracted ==
    \A e \in Engines :
        pausing[e].st \in {"resumed", "timed_out"} =>
            /\ time_left[e] <= pausing[e].at
            /\ time_left[e] >= pausing[e].at - pausing[e].ran

\* a pause of PAUSE_TIMEOUT is over, and the Timer has all the time left it
\* had when it was paused
C2_Witness ==
    \E e \in Engines :
        /\ pausing[e].st = "timed_out"
        /\ time_left[e] > 0
        /\ time_left[e] = pausing[e].at - pausing[e].ran

\* C3: threshold fire-once: whatever the ticks and the commands, a threshold is
\* notified at most once in the life of a Timer, and only at a moment when
\* time_left is at or below it
C3_ThresholdFiresOnce ==
    [][/\ \A e \in Engines :
             notified'[e] # notified[e] =>
                 /\ notified'[e] = Append(notified[e], Last(notified'[e]))
                 /\ Last(notified'[e]) \notin Range(notified[e])
                 /\ Last(notified'[e]) >= time_left[e]
       /\ sent' # sent =>
             /\ sent' = Append(sent, Last(sent'))
             /\ Last(sent').threshold \notin {sent[i].threshold : i \in 1..Len(sent)}
             /\ Last(sent').threshold >= Last(sent').time_left]_vars

\* a Timer has notified both of its thresholds, one minute and zero
C3_Witness ==
    \E e \in Engines : notified[e] = <<Sec(60), 0>>

\* C4: the display that finds several pending thresholds reached at once
\* notifies every one of them before it returns: in timer_bot.py none is left
\* pending once the call that notified the highest is over, and in bot.py no
\* threshold is consumed without its notification
C4_DisplayNotifiesEveryReachedThreshold ==
    /\ \A e \in Engines :
          owed[e] # {} => \E t \in InSend : TEng(t) = e /\ TPos(t) = "notify"
    /\ \A i \in 1..Len(sent) : sent[i].over = {}

\* C5: an add or a sub of delta on a Timer with t >= 0 left leaves
\* max(0, t + delta)
C5_AdjustClamps ==
    [][\A e \in Engines, m \in MinuteOptions :
          /\ (\E u \in Users : AdjustCmd(u, m) /\ MAP = e /\ time_left[e] >= 0) =>
                 time_left'[e] = Max(0, time_left[e] + Sec(m * 60))
          /\ (\E u \in Users : AdjustCmd(u, -m) /\ MAP = e /\ time_left[e] >= 0) =>
                 time_left'[e] = Max(0, time_left[e] - Sec(m * 60))]_vars

\* C6: with no add and no sub, the time_left of a Timer never grows and is
\* never negative, whatever pause, resume, display and stop commands come
C6_TimeLeftDecreasesToZero ==
    [][\A e \in 1..nTimers :
          time_left'[e] <= time_left[e] /\ time_left'[e] >= 0]_vars

\* C7: once stop() has marked a Timer stopped, the Timer never again sleeps
\* until a next display
C7_StoppedIsTerminal ==
    \A e \in Engines :
        stopped[e] # "no" =>
            ~(cd[e].pc = "wait_countdown" /\ countdown_future[e].st = "pending"
                /\ countdown_future[e].due > now)

\* C8: once the handler of a stop command has returned, the registry holds no
\* entry for the Timer it stopped
C8_StopRemovesRegistryEntry ==
    \A e \in Engines : stopped[e] = "returned" => MAP # e

\* C9: no pause command issued to a live Timer is dropped: a pause() that
\* comes right after a resume, before the countdown has noticed the resume,
\* leaves the Timer paused
C9_PauseAfterResumeIsKept ==
    \A e \in Engines :
        pausing[e].st = "lost" =>
            resume_future[e].st = "pending" /\ resume_future[e].due > now

\* C10: pause() on a Timer that is already paused changes nothing: time_left,
\* the pause under way and the moment it times out stay as they are
C10_PauseIsIdempotent ==
    [][\A u \in Users :
          (PauseCmd(u) /\ resume_future[MAP] # None) =>
              UNCHANGED <<time_left, time_reference, resume_future, countdown_future,
                          cd, thresholds, message>>]_vars

\* a pause command has reached a Timer whose pause was under way
C10_Witness ==
    \E e \in Engines :
        /\ pausing[e].st = "again"
        /\ resume_future[e].st = "pending" /\ resume_future[e].due > now

\* a stop() has been called on the Timer: it has marked it, or it still awaits
\* the "Stopped with ..." message of line 427
StopCalled(e) ==
    stopped[e] # "no" \/ \E h \in handlers : h.cmd = "stop" /\ h.eng = e

\* C11: stop() is idempotent: a stop() on a Timer on which stop() has been
\* called already leaves the Timer as it is (time_left, waits, thresholds,
\* message, countdown) and sends no second "Stopped with ..." message and no
\* notification
C11_StopIsIdempotent ==
    [][\A u \in Users :
          (StopCmd(u) /\ StopCalled(MAP)) =>
              /\ UNCHANGED <<time_left, time_reference, thresholds, message,
                             countdown_future, resume_future, cd, notified>>
              /\ \A h \in handlers' \ handlers : h.pc # "stop_msg"]_vars

\* C12: a pause, resume, stop, add or sub command on a secured Timer from a
\* user who is not its author is never carried out: it is answered
\* "Unauthorized", and that answer leaves the Timer and the registry as they are
C12_OnlyTheAuthorManipulates ==
    [][/\ \A u \in Users, m \in MinuteOptions :
             (MAP # 0 /\ secured[MAP] /\ u # author_id[MAP]) =>
                 ~(\/ PauseCmd(u) \/ StopCmd(u) \/ RefreshCmd(u, TRUE)
                   \/ AdjustCmd(u, m) \/ AdjustCmd(u, -m))
       /\ refused' # refused =>
             UNCHANGED <<MAP, time_left, time_reference, thresholds, message,
                         countdown_future, resume_future, cd, handlers>>]_vars

\* on a secured Timer a command of another user was refused and a pause of
\* the author was carried out
C12_Witness ==
    \E e \in Engines :
        secured[e] /\ refused > 0 /\ pausing[e].st = "first" /\ resume_future[e] # None

\* C13: a sub of more than the time left (less a safety margin) is refused and
\* changes nothing: no sub that is carried out on a Timer with time left
\* takes its time_left to zero or below
C13_SubLeavesTimeLeft ==
    [][\A u \in Users, m \in MinuteOptions :
          (AdjustCmd(u, -m) /\ time_left[MAP] > 0) => time_left'[MAP] > 0]_vars

\* C14: a paused Timer that gets no resume and no stop resumes by itself
\* PAUSE_TIMEOUT (1800 s) after the pause() call: the pause is never under way
\* for longer, it only times out at that moment, the countdown that waits for
\* the resume does leave its wait, and it goes on from the time_left it had
\* while it waited
C14_PauseTimesOut ==
    /\ [](\A e \in Engines :
            /\ pausing[e].st \in {"first", "again"} => pausing[e].since <= PAUSE_TIMEOUT
            /\ pausing[e].st = "timed_out" => pausing[e].since = PAUSE_TIMEOUT)
    /\ [][\A e \in Engines :
            (cd[e].pc = "wait_resume" /\ cd'[e].pc # "wait_resume") =>
                time_left'[e] = time_left[e]]_vars
    /\ \A e \in Engines : (cd[e].pc = "wait_resume") ~> (cd[e].pc # "wait_resume")

\* a pause has timed out and the countdown sleeps until its next display
C14_Witness ==
    \E e \in Engines :
        /\ pausing[e].st = "timed_out" /\ pausing[e].since = PAUSE_TIMEOUT
        /\ cd[e].pc \in {"loop", "wait_countdown"} /\ time_left[e] > 0

\* C15: after an add or a sub on a Timer with time left, the pending thresholds
\* are the canonical thresholds and the whole hours strictly below the new
\* time_left
C15_AdjustRecomputesThresholds ==
    [][\A u \in Users, m \in MinuteOptions :
          ((AdjustCmd(u, m) \/ AdjustCmd(u, -m)) /\ time_left[MAP] >= 0
                /\ time_left'[MAP] >= 0) =>
              LET tl == time_left'[MAP]
              IN  Range(thresholds'[MAP]) =
                      {T \in Range(THRESHOLDS) \cup {i * HOUR : i \in 1..(tl \div HOUR)} :
                          T < tl}]_vars

\* C16: a threshold pending at the start is notified exactly once by the time
\* a display has been made with time_left at or below it, whatever add and sub
\* commands came before: in timer_bot.py when the final display of a Timer
\* that was not stopped returns, in bot.py when a call of the TimerManager
\* moves the next threshold below it
C16_ThresholdNotifiedOnce ==
    /\ [][\A e \in Engines :
             (cd[e].pc = "final" /\ cd'[e].pc = "done" /\ budget' = budget
                  /\ stopped[e] = "no" /\ time_left[e] >= 0) =>
                 \A opt \in StartOptions :
                     \A T \in Range(InitialThresholds(Sec(opt[1] * 3600 + opt[2] * 60))) :
                         T >= time_left[e] =>
                             Cardinality({i \in 1..Len(notified'[e]) :
                                             notified'[e][i] = T}) = 1]_vars
    /\ [][\A T \in Range(TimerManager_THRESHOLDS) \cup {Sec(3600), Sec(7200)} :
             (manager.threshold # NoThreshold /\ T <= manager.threshold
                  /\ (manager.threshold' = NoThreshold \/ T > manager.threshold')) =>
                 Cardinality({i \in 1..Len(sent') : sent'[i].threshold = T}) = 1]_vars

\* C17: a Timer is constructed with the canonical thresholds and the whole
\* hours strictly below its duration pending, and its first display, the one
\* of the start command, sends no threshold notification
C17_ThresholdsBelowDuration ==
    /\ [][nTimers' # nTimers =>
             LET d == time_left'[nTimers']
             IN  Range(thresholds'[nTimers']) =
                     {T \in Range(THRESHOLDS) \cup {i * HOUR : i \in 1..(d \div HOUR)} :
                         T < d}]_vars
    /\ [](\A h \in handlers : h.cmd = "start" => h.pos # "notify")

\* C18: when a display has finished, no pending threshold is at or above the
\* time_left it displayed: in timer_bot.py none is owed when the notification
\* of line 521 has returned, in bot.py the next threshold is below the
\* time_left of the call once the loop of lines 184-187 is over
C18_NoPendingThresholdAboveTimeLeft ==
    /\ [][\A e \in Engines :
             ((\E t \in InSend : TEng(t) = e /\ TPos(t) = "notify")
                  /\ cd'[e].pos # "notify"
                  /\ \A h \in handlers' : h.eng = e => h.pos # "notify") =>
                 owed'[e] = {}]_vars
    /\ [][\A c \in Calls :
             (calls[c].pc \in {"edit", "replace"} /\ calls'[c].pc \notin {"edit", "replace"}
                  /\ calls_left' = calls_left) =>
                 (manager.threshold' = NoThreshold
                      \/ manager.threshold' < calls[c].time_left)]_vars

\* C19: a Timer that is never stopped and receives finitely many commands
\* counts down to time_left = 0 and makes its final display, after which its
\* run is over and the channel has no entry in MAP, so that a start is accepted
C19_NaturalCompletion ==
    /\ \A e \in Engines :
          (cd[e].pc = "sched") ~> (cd[e].pc = "final" /\ time_left[e] = 0)
    /\ \A e \in Engines :
          (cd[e].pc = "final") ~> (cd[e].pc = "done" /\ MAP = 0)

\* C20: a command that changes a running Timer is followed by a display
\* without the countdown waiting out a sleep: a countdown that has started no
\* display since the command does not wait for a sleep that is still pending,
\* unless the handler of a command is still to cancel it
C20_CommandsAreDisplayedAtOnce ==
    \A e \in Engines :
        (~displayed[e] /\ ~\E h \in handlers : h.eng = e /\ h.pc \in {"refresh_del", "stop_msg"}) =>
            /\ cd[e].pc = "wait_countdown" =>
                   (countdown_future[e] = None \/ Woken(countdown_future[e]))
            /\ cd[e].pc = "wait_resume" => Woken(resume_future[e])

\* C21: a Timer owns one display message: when no display operation of the
\* channel's only Timer is in progress, no message but the one its handle
\* refers to is in the channel; in bot.py one call of the TimerManager at a
\* time edits or replaces the message
C21_OneDisplayMessage ==
    /\ \A e \in Engines :
          (nTimers = 1 /\ e = 1 /\ handlers = {} /\ cd[e].pc \notin {"loop", "final"}) =>
              posted \subseteq {message[e].id}
    /\ Cardinality({c \in Calls : calls[c].pc \in {"edit", "replace"}}) <= 1

\* C22: a Timer whose run is over, by a stop or by completion, has no sleep
\* pending: neither the interval of the countdown nor the timeout of a pause
C22_NoWaitOutlivesTheTimer ==
    \A e \in Engines :
        cd[e].pc = "done" =>
            /\ ~(countdown_future[e].st = "pending" /\ countdown_future[e].due > now)
            /\ ~(resume_future[e].st = "pending" /\ resume_future[e].due > now)

\* C23: a threshold is notified after a display of the same call that shows
\* a time_left at or below it: in timer_bot.py the display the Timer started
\* last shows no more than the threshold notified, in bot.py the notification
\* of a call follows its edit or its new message
C23_DisplayBeforeNotification ==
    /\ [][\A e \in Engines :
             notified'[e] # notified[e] => shown[e] <= Last(notified'[e])]_vars
    /\ [][\A c \in Calls :
             (calls'[c].pc = "notify" /\ calls[c].pc # "notify") =>
                 calls[c].pc \in {"edit", "replace"}]_vars

\* C24: a failed edit of the display message does not end the countdown: the
\* handle is dropped and, in the same call, the old message is deleted and a
\* new one created, with time_left and the thresholds as they were, and the
\* countdown stays where it was; in bot.py the call goes on to a new message
\* with the lock held and the threshold unchanged
C24_EditFailureIsNotFatal ==
    /\ [][\A e \in Engines :
             (cd[e].pos = "edit" /\ cd'[e] # cd[e]
                  /\ (cd[e].tgt.id \notin posted \/ budget' < budget)) =>
                 /\ cd'[e].pc = cd[e].pc
                 /\ cd'[e].pos \in {"del", "create"}
                 /\ message'[e] = NoMessage
                 /\ time_left'[e] = time_left[e]
                 /\ thresholds'[e] = thresholds[e]]_vars
    /\ [][\A e \in Engines :
             (cd[e].pos = "del" /\ cd'[e].pos # "del") =>
                 (cd'[e].pos = "create" \/ message'[e].id # 0)]_vars
    /\ [][\A c \in Calls :
             (calls[c].pc = "edit" /\ calls'[c].pc # "edit" /\ calls_left' < calls_left) =>
                 /\ calls'[c].pc = "replace"
                 /\ manager'.locked
                 /\ manager'.threshold = manager.threshold]_vars

\* the countdown of a Timer with time left deletes a message that is not an
\* hour old: its edit has failed
C24_Witness ==
    \E e \in Engines :
        /\ cd[e].pc = "loop" /\ cd[e].pos = "del" /\ ~cd[e].tgt.old
        /\ time_left[e] > 0 /\ stopped[e] = "no"

\* C25: a running Timer whose countdown fails to create its display message
\* stays in MAP and keeps counting down
C25_CreateFailureIsNotFatal ==
    [][\A e \in Engines :
          (cd[e].pc = "loop" /\ cd[e].pos = "create" /\ cd'[e] # cd[e]
               /\ budget' < budget) =>
              (cd'[e].pc # "done" /\ MAP' = MAP)]_vars

\* the start command that constructed Timer e has failed: its handler is over
\* and no task was created for the Timer
StartFailed(e) ==
    /\ e <= nTimers /\ cd[e].pc = "none"
    /\ ~\E h \in handlers : h.cmd = "start" /\ h.eng = e

\* C26: when the first display of a start command fails, the Timer it
\* constructed is never in MAP, has no countdown and no sleep, the failure
\* leaves MAP as it was, and a start is accepted once the channel has no entry
C26_FailedStartLeavesNothing ==
    /\ [][\A h \in handlers :
             (h.cmd = "start" /\ h.pos = "create" /\ h \notin handlers'
                  /\ budget' < budget) =>
                 (StartFailed(h.eng)' /\ MAP' = MAP /\ cd' = cd)]_vars
    /\ [](\A e \in Engines :
             StartFailed(e) =>
                 /\ MAP # e
                 /\ countdown_future[e] = None /\ resume_future[e] = None
                 /\ (MAP = 0 /\ nTimers < MaxTimers /\ budget > 0) =>
                        ENABLED (\E opt \in StartOptions : Start("A", opt, FALSE)))

\* a start has failed and the next start on the channel has its Timer running
C26_Witness ==
    /\ StartFailed(1)
    /\ nTimers = 2 /\ MAP = 2 /\ cd[2].pc = "wait_countdown"

\* C27: when the listener of the shutdown is over, stop() has been called on
\* every Timer that was in MAP when the shutdown came
C27_ShutdownStopsEveryTimer ==
    stopping.st # "no" => \A e \in stopping.timers : StopCalled(e)

\* C28: the display command is accepted from every user whenever the channel
\* has a Timer, secured or not
C28_DisplayIsOpenToAll ==
    \A u \in Users :
        (MAP # 0 /\ budget > 0) => ENABLED RefreshCmd(u, FALSE)

\* line 429: the time the "Stopped with" message of stop() reports. Timer
\* defines no time_str; it is read as the text of time_left, the one
\* attribute that holds the remaining time
time_str(e) == time_left[e]

\* C29: a stop of a Timer that counts down reports the time that remains at
\* the moment of the stop: time_left less the time run since time_reference
C29_StopReportsTheTimeOfTheStop ==
    [][\A u \in Users :
          (StopCmd(u) /\ time_left[MAP] >= 50 /\ cd[MAP].pc = "wait_countdown"
               /\ resume_future[MAP] = None) =>
              time_str(MAP) =
                  time_left[MAP] - Min(time_left[MAP], Max(0, now - time_reference[MAP]))]_vars

\* C30: no step of an add, a sub or a display-anew turns a paused Timer
\* (resume_future set) into a running one or back, and no step of a
\* display-anew changes time_left or the pending thresholds
C30_AdjustAndDisplayKeepTheStatus ==
    [][\A e \in Engines :
          /\ ((\E h \in handlers : h.eng = e /\ h.cmd \in {"add", "sub", "display"}
                                     /\ h \notin handlers')
                 \/ (MAP = e /\ \E u \in Users :
                        \/ RefreshCmd(u, FALSE)
                        \/ \E m \in MinuteOptions : AdjustCmd(u, m) \/ AdjustCmd(u, -m)))
               => ((resume_future'[e] = None) <=> (resume_future[e] = None))
          /\ ((\E h \in handlers : h.eng = e /\ h.cmd = "display" /\ h \notin handlers')
                 \/ (MAP = e /\ \E u \in Users : RefreshCmd(u, FALSE)))
               => (time_left'[e] = time_left[e] /\ thresholds'[e] = thresholds[e])]_vars

\* lines 466-486: the title of the embed a display builds
Title(e) ==
    IF time_left[e] < 50 THEN "Timer finished"
    ELSE IF resume_future[e] # None THEN "Timer paused"
    ELSE "remaining"

\* C31: when a display of the loop returns with no pause required, the
\* countdown sleeps 30 s if time_left >= 330 s, 1.01 s if 2 s <= time_left <
\* 330 s and time_left if time_left < 2 s; and a test of the loop that finds
\* time_left <= 0.5 s, and no other, ends the loop and starts the final
\* display, whose title is "Timer finished"
C31_DisplayCadence ==
    [][\A e \in Engines :
          /\ (cd[e].pc = "loop" /\ cd'[e].pc \notin {"loop", "done"}
                  /\ resume_future[e] = None) =>
                /\ cd'[e].pc = "wait_countdown"
                /\ countdown_future'[e] =
                       Sleep(IF time_left[e] >= Sec(330) THEN Sec(30)
                             ELSE IF time_left[e] >= Sec(2) THEN 101
                             ELSE time_left[e])
          /\ (cd[e].pc \in {"sched", "wait_countdown", "wait_resume"}
                  /\ cd'[e].pc \notin {"sched", "wait_countdown", "wait_resume"}) =>
                /\ cd'[e].pc = IF time_left[e] <= 50 THEN "final" ELSE "loop"
                /\ cd'[e].pos \in {"edit", "del", "create"}
                /\ cd'[e].pc = "final" => Title(e)' = "Timer finished"]_vars

\* C32: once stop() has marked a Timer (lines 431-436), its countdown never
\* waits for a sleep that is still to run, be it the interval of the display
\* or the timeout of a pause, and its run ends: the countdown is over, the
\* entry of the channel is removed and no sleep of the Timer is pending
C32_StopEndsTheCountdown ==
    /\ [](\A e \in Engines :
             stopped[e] # "no" =>
                 /\ cd[e].pc = "wait_countdown" =>
                        (countdown_future[e] = None \/ Woken(countdown_future[e]))
                 /\ cd[e].pc = "wait_resume" => Woken(resume_future[e]))
    /\ \A e \in Engines :
          (stopped[e] # "no") ~>
              /\ cd[e].pc = "done" /\ MAP # e
              /\ ~(countdown_future[e].st = "pending" /\ countdown_future[e].due > now)
              /\ ~(resume_future[e].st = "pending" /\ resume_future[e].due > now)

\* a sleep that is neither cancelled nor over
Live(f) == f.st = "pending" /\ f.due > now

\* C33: a Timer never has both a live sleep of the countdown and a live sleep
\* of a pause
C33_OneLiveWait ==
    \A e \in Engines : ~(Live(countdown_future[e]) /\ Live(resume_future[e]))

\* a pause() has just cancelled and cleared the sleep the countdown waits for
C33_Witness ==
    \E e \in Engines :
        /\ cd[e].pc = "wait_countdown" /\ countdown_future[e] = None
        /\ Live(resume_future[e])
        /\ pausing[e].st = "first" /\ stopped[e] = "no"

\* the "0 seconds" notifications a Timer has sent (threshold 0 of THRESHOLDS)
Finished(e) == {i \in DOMAIN notified[e] : notified[e][i] = 0}

\* C34: a Timer that is not stopped and whose final display returns has
\* notified the threshold 0 exactly once when its run ends; no notification
\* of the threshold 0 is sent for a Timer on which stop() has been called;
\* and in bot.py a call of the display callback with time_left <= 0 sends
\* "timer finished" once its display is made, after the notification of a
\* threshold if it owes one
C34_FinishedNotifiedOnce ==
    /\ [][\A e \in Engines :
             (cd[e].pc = "final" /\ cd'[e].pc = "done" /\ stopped[e] = "no"
                  /\ ~MessageCreateFailed) =>
                 Cardinality(Finished(e)') = 1]_vars
    /\ [][\A e \in Engines :
             (Finished(e)' # Finished(e)) => ~StopCalled(e)]_vars
    /\ [][\A c \in Calls :
             /\ (calls[c].pc \in {"edit", "replace"} /\ calls[c].time_left <= 0
                    /\ (ManagerEdited(c) \/ ManagerReplaced(c))) =>
                   calls'[c].pc \in {"notify", "finished"}
             /\ (calls[c].pc = "notify" /\ calls[c].time_left <= 0
                    /\ calls'[c] # calls[c]) =>
                   calls'[c].pc = "finished"
             /\ (calls'[c].pc = "finished" /\ calls[c].pc # "finished") =>
                   calls[c].time_left <= 0]_vars

\* C35: a call of the display callback whose display is made notifies at most
\* one threshold: of the pending thresholds at or above its time_left (the
\* thresholds of one, five, fifteen and thirty minutes and the whole hours, up
\* to the pending one) the lowest is notified and the others are consumed
\* without a notification; the threshold left pending is below time_left or
\* there is none
C35_OneNotificationPerCall ==
    [][\A c \in Calls :
          (ManagerEdited(c) \/ ManagerReplaced(c)) =>
              LET tl == calls[c].time_left
                  reached == {T \in {Sec(60), Sec(300), Sec(900), Sec(1800)}
                                        \cup {Sec(3600 * k) : k \in 1..3} :
                                  manager.threshold # NoThreshold
                                      /\ T <= manager.threshold /\ T >= tl}
              IN  /\ IF reached = {}
                     THEN sent' = sent /\ calls'[c].pc # "notify"
                     ELSE /\ Len(sent') = Len(sent) + 1
                          /\ SubSeq(sent', 1, Len(sent)) = sent
                          /\ calls'[c].pc = "notify"
                          /\ \A T \in reached : Last(sent').threshold <= T
                          /\ Last(sent').threshold \in reached
                          /\ Last(sent').over = reached \ {Last(sent').threshold}
                  /\ manager'.threshold = NoThreshold \/ manager'.threshold < tl
                  /\ manager'.threshold # NoThreshold =>
                         \A T \in reached : manager'.threshold < T]_vars

\* a call has consumed two thresholds or more and notified the lowest
C35_Witness ==
    \E i \in 1..Len(sent) :
        /\ sent[i].over # {}
        /\ \A T \in sent[i].over : sent[i].threshold < T
        /\ manager.threshold < sent[i].time_left

\* C36: for every whole number of seconds t, _next_threshold(t) is the
\* largest of 60, 300, 900, 1800 and the whole hours that is strictly below
\* t, and None if there is none (t <= 60); what it returns is below t, so
\* that iterating it ends; and the threshold a TimerManager holds is always
\* one of these values or None
C36_NextThreshold ==
    LET values == {60, 300, 900, 1800} \cup {3600 * k : k \in 1..(MaxThresholdTime \div 3600)}
    IN  /\ \A t \in 0..MaxThresholdTime :
               LET below == {x \in values : x < t}
                   n == _next_threshold(Sec(t))
               IN  /\ IF below = {} THEN n = NoThreshold
                      ELSE n = Sec(CHOOSE x \in below : \A y \in below : y <= x)
                   /\ (n = NoThreshold) <=> (t <= 60)
                   /\ n # NoThreshold => n < Sec(t) /\ n >= Sec(60)
        /\ manager.threshold \in {Sec(x) : x \in values} \cup {NoThreshold}

\* a TimerManager of two hours or more has stepped its threshold down from two
\* hours to thirty minutes in one call, by way of one hour
C36_Witness ==
    /\ manager.threshold = Sec(900)
    /\ \E i \in 1..Len(sent) :
           sent[i].threshold = Sec(1800) /\ sent[i].over = {Sec(7200), Sec(3600)}

====
